---- MODULE Spec2Model ----
(***************************************************************************)
(* CarrotHLM: vectors, quaternions, 3x3 / 4x4 matrices and conversions.   *)
(*                                                                         *)
(* Every library function is a pure function of its arguments.  Each one   *)
(* is an operator below, computed as the source computes it, and one       *)
(* action per function applies it to inputs drawn from bounded sets.  The  *)
(* general 4x4 inverse is a loop, so it is stepped: one action per pivot   *)
(* iteration.                                                              *)
(*                                                                         *)
(* A float is modelled as an exact rational <<n, d>> in lowest terms with  *)
(* d > 0.  d = 0 marks the non-finite IEEE values: <<1,0>> is +inf,        *)
(* <<-1,0>> is -inf, <<0,0>> is NaN.  Rounding is not modelled: a result   *)
(* that is exact here is within rounding error in the program.             *)
(***************************************************************************)
EXTENDS Integers, Sequences, FiniteSets, TLC

VARIABLES pc, op, arg, out, a, inv, i, pivot

vars == <<pc, op, arg, out, a, inv, i, pivot>>

-----------------------------------------------------------------------------
(* float arithmetic *)

Abs(n) == IF n < 0 THEN -n ELSE n

Sgn(n) == IF n < 0 THEN -1 ELSE IF n > 0 THEN 1 ELSE 0

RECURSIVE GCD(_, _)
GCD(m, n) == IF n = 0 THEN m ELSE GCD(n, m % n)

\* the float n/d
Q(n, d) ==
    IF d = 0 THEN <<Sgn(n), 0>>
    ELSE LET g == GCD(Abs(n), Abs(d))
             s == IF d < 0 THEN -1 ELSE 1
         IN  <<(s * n) \div g, (s * d) \div g>>

F(n) == <<n, 1>>

NaN == <<0, 0>>

IsFinite(r) == r[2] # 0

IsNaN(r) == r = NaN

fneg(r) == <<-r[1], r[2]>>

fabs(r) == <<Abs(r[1]), r[2]>>

fadd(r, s) ==
    IF IsFinite(r) /\ IsFinite(s)
    THEN LET g == GCD(r[2], s[2])
         IN  Q(r[1] * (s[2] \div g) + s[1] * (r[2] \div g), (r[2] \div g) * s[2])
    ELSE IF IsNaN(r) \/ IsNaN(s) THEN NaN
    ELSE IF IsFinite(r) THEN s
    ELSE IF IsFinite(s) THEN r
    ELSE IF r = s THEN r ELSE NaN

fsub(r, s) == fadd(r, fneg(s))

fmul(r, s) ==
    IF IsFinite(r) /\ IsFinite(s)
    THEN LET g == GCD(Abs(r[1]), s[2])
             h == GCD(Abs(s[1]), r[2])
         IN  Q((r[1] \div g) * (s[1] \div h), (r[2] \div h) * (s[2] \div g))
    ELSE IF IsNaN(r) \/ IsNaN(s) \/ r[1] = 0 \/ s[1] = 0 THEN NaN
    ELSE <<Sgn(r[1]) * Sgn(s[1]), 0>>

fdiv(r, s) ==
    IF IsFinite(r) /\ IsFinite(s)
    THEN IF s[1] = 0 THEN <<Sgn(r[1]), 0>> ELSE Q(r[1] * s[2], r[2] * s[1])
    ELSE IF IsNaN(r) \/ IsNaN(s) THEN NaN
    ELSE IF IsFinite(r) THEN F(0)
    ELSE IF IsFinite(s) THEN <<r[1] * (IF s[1] < 0 THEN -1 ELSE 1), 0>>
    ELSE NaN

\* n1 / d1 < n2 / d2 for d1, d2 > 0, by continued fractions (no products)
RECURSIVE LessFrac(_, _, _, _)
LessFrac(n1, d1, n2, d2) ==
    IF n1 \div d1 # n2 \div d2 THEN n1 \div d1 < n2 \div d2
    ELSE IF n2 % d2 = 0 THEN FALSE
    ELSE IF n1 % d1 = 0 THEN TRUE
    ELSE LessFrac(d2, n2 % d2, d1, n1 % d1)

\* r < s (false when either is NaN)
flt(r, s) ==
    IF IsNaN(r) \/ IsNaN(s) THEN FALSE
    ELSE IF IsFinite(r) /\ IsFinite(s) THEN LessFrac(r[1], r[2], s[1], s[2])
    ELSE IF IsFinite(r) THEN s[1] > 0
    ELSE IF IsFinite(s) THEN r[1] < 0
    ELSE r[1] < s[1]

fgt(r, s) == flt(s, r)

fle(r, s) == ~IsNaN(r) /\ ~IsNaN(s) /\ ~flt(s, r)

\* the integer square root of a perfect square
ISqrt(n) == CHOOSE r \in 0..n : r * r = n

\* std::sqrt, on the floats whose root is a float of the model
fsqrt(r) ==
    IF IsNaN(r) \/ r[1] < 0 THEN NaN
    ELSE IF ~IsFinite(r) THEN r
    ELSE <<ISqrt(r[1]), ISqrt(r[2])>>

epsilon == <<1, 1000000>>

\* the validation program's comparison tolerance
GENERAL_EPS == <<1, 10000>>

-----------------------------------------------------------------------------
(* float3 / float4 and their componentwise operators *)

float3(x, y, z) == [x |-> x, y |-> y, z |-> z]

float4(x, y, z, w) == [x |-> x, y |-> y, z |-> z, w |-> w]

xyz(v) == float3(v.x, v.y, v.z)

add3(u, v) == float3(fadd(u.x, v.x), fadd(u.y, v.y), fadd(u.z, v.z))

add4(u, v) == float4(fadd(u.x, v.x), fadd(u.y, v.y), fadd(u.z, v.z), fadd(u.w, v.w))

scale3(s, v) == float3(fmul(s, v.x), fmul(s, v.y), fmul(s, v.z))

scale4(s, v) == float4(fmul(s, v.x), fmul(s, v.y), fmul(s, v.z), fmul(s, v.w))

neg3(v) == float3(fneg(v.x), fneg(v.y), fneg(v.z))

neg4(v) == float4(fneg(v.x), fneg(v.y), fneg(v.z), fneg(v.w))

dot3(u, v) == fadd(fadd(fmul(u.x, v.x), fmul(u.y, v.y)), fmul(u.z, v.z))

dot4(u, v) ==
    fadd(fadd(fadd(fmul(u.x, v.x), fmul(u.y, v.y)), fmul(u.z, v.z)), fmul(u.w, v.w))

-----------------------------------------------------------------------------
(* float4x4: four float4 columns, column-major; m[c] is column c *)

float4x4(c0, c1, c2, c3) == [c \in 0..3 |-> <<c0, c1, c2, c3>>[c + 1]]

identity4x4 ==
    float4x4(float4(F(1), F(0), F(0), F(0)),
             float4(F(0), F(1), F(0), F(0)),
             float4(F(0), F(0), F(1), F(0)),
             float4(F(0), F(0), F(0), F(1)))

\* the fourth column left out of the sum
mul4x4v_without_w(m, v) ==
    add4(add4(scale4(v.x, m[0]), scale4(v.y, m[1])), scale4(v.z, m[2]))

mul4x4v(m, v) ==
    add4(add4(add4(scale4(v.x, m[0]), scale4(v.y, m[1])), scale4(v.z, m[2])),
         scale4(v.w, m[3]))

\* the operands taken in the other order: b applied to the columns of a
mul4x4_swapped(ma, mb) ==
    float4x4(mul4x4v(mb, ma[0]), mul4x4v(mb, ma[1]),
             mul4x4v(mb, ma[2]), mul4x4v(mb, ma[3]))

mul4x4(ma, mb) ==
    float4x4(mul4x4v(ma, mb[0]), mul4x4v(ma, mb[1]),
             mul4x4v(ma, mb[2]), mul4x4v(ma, mb[3]))

translate(t) ==
    float4x4(float4(F(1), F(0), F(0), F(0)),
             float4(F(0), F(1), F(0), F(0)),
             float4(F(0), F(0), F(1), F(0)),
             float4(t.x, t.y, t.z, F(1)))

scale(s) ==
    float4x4(float4(s.x, F(0), F(0), F(0)),
             float4(F(0), s.y, F(0), F(0)),
             float4(F(0), F(0), s.z, F(0)),
             float4(F(0), F(0), F(0), F(1)))

-----------------------------------------------------------------------------
(* Angles.  An angle rad is the record of the values the library takes    *)
(* from it: c = cos(rad), s = sin(rad) and, where they are floats of the   *)
(* model, hc = cos(rad * .5), hs = sin(rad * .5).                          *)

\* the angle whose half has cosine hc and sine hs
Angle(hc, hs) ==
    [c |-> fsub(fmul(hc, hc), fmul(hs, hs)), s |-> fmul(F(2), fmul(hc, hs)),
     hc |-> hc, hs |-> hs]

cos(rad) == rad.c

sin(rad) == rad.s

cos_half(rad) == rad.hc

sin_half(rad) == rad.hs

rotate_x(rad) ==
    LET c == cos(rad)
        s == sin(rad)
    IN  float4x4(float4(F(1), F(0), F(0), F(0)),
                 float4(F(0), c, s, F(0)),
                 float4(F(0), fneg(s), c, F(0)),
                 float4(F(0), F(0), F(0), F(1)))

rotate_y(rad) ==
    LET c == cos(rad)
        s == sin(rad)
    IN  float4x4(float4(c, F(0), fneg(s), F(0)),
                 float4(F(0), F(1), F(0), F(0)),
                 float4(s, F(0), c, F(0)),
                 float4(F(0), F(0), F(0), F(1)))

rotate_z(rad) ==
    LET c == cos(rad)
        s == sin(rad)
    IN  float4x4(float4(c, s, F(0), F(0)),
                 float4(fneg(s), c, F(0), F(0)),
                 float4(F(0), F(0), F(1), F(0)),
                 float4(F(0), F(0), F(0), F(1)))

transpose4x4(m) ==
    float4x4(float4(m[0].x, m[1].x, m[2].x, m[3].x),
             float4(m[0].y, m[1].y, m[2].y, m[3].y),
             float4(m[0].z, m[1].z, m[2].z, m[3].z),
             float4(m[0].w, m[1].w, m[2].w, m[3].w))

-----------------------------------------------------------------------------
(* Core helpers and vector functions *)

almost_equal(x, y, eps) == fle(fabs(fsub(x, y)), eps)

length3(v) == fsqrt(dot3(v, v))

\* the zero-length test left out: the division is always made
normalize3_unguarded(v) == scale3(fdiv(F(1), length3(v)), v)

normalize3(v) ==
    LET len == length3(v)
    IN  IF almost_equal(len, F(0), epsilon)
        THEN float3(F(0), F(0), F(0))
        ELSE scale3(fdiv(F(1), len), v)

clamp(v, lo, hi) == IF flt(v, lo) THEN lo ELSE IF fgt(v, hi) THEN hi ELSE v

float2(x, y) == [x |-> x, y |-> y]

scale2(s, v) == float2(fmul(s, v.x), fmul(s, v.y))

dot2(u, v) == fadd(fmul(u.x, v.x), fmul(u.y, v.y))

length2(v) == fsqrt(dot2(v, v))

length4(v) == fsqrt(dot4(v, v))

normalize2(v) ==
    LET len == length2(v)
    IN  IF almost_equal(len, F(0), epsilon)
        THEN float2(F(0), F(0))
        ELSE scale2(fdiv(F(1), len), v)

normalize4(v) ==
    LET len == length4(v)
    IN  IF almost_equal(len, F(0), epsilon)
        THEN float4(F(0), F(0), F(0), F(0))
        ELSE scale4(fdiv(F(1), len), v)

sub3(u, v) == float3(fsub(u.x, v.x), fsub(u.y, v.y), fsub(u.z, v.z))

sub4(u, v) == float4(fsub(u.x, v.x), fsub(u.y, v.y), fsub(u.z, v.z), fsub(u.w, v.w))

\* a.yzx * b.zxy - a.zxy * b.yzx
\* cross with its operands exchanged: the left-hand rule
cross_left_handed(u, v) ==
    float3(fsub(fmul(v.y, u.z), fmul(v.z, u.y)),
           fsub(fmul(v.z, u.x), fmul(v.x, u.z)),
           fsub(fmul(v.x, u.y), fmul(v.y, u.x)))

\* a.yzx * b.zxy - a.zxy * b.yzx
cross(u, v) ==
    float3(fsub(fmul(u.y, v.z), fmul(u.z, v.y)),
           fsub(fmul(u.z, v.x), fmul(u.x, v.z)),
           fsub(fmul(u.x, v.y), fmul(u.y, v.x)))

\* faceforward(n, i, nref)
faceforward(n, i0, nref) == IF flt(dot3(nref, i0), F(0)) THEN n ELSE neg3(n)

\* float4x4::rotate_axis_angle
rotate_axis_angle(axis0, rad) ==
    LET axis == normalize3(axis0)
        c == cos(rad)
        s == sin(rad)
        t == fsub(F(1), c)
        x == axis.x
        y == axis.y
        z == axis.z
    IN  float4x4(
            float4(fadd(fmul(fmul(t, x), x), c), fadd(fmul(fmul(t, x), y), fmul(s, z)),
                   fsub(fmul(fmul(t, x), z), fmul(s, y)), F(0)),
            float4(fsub(fmul(fmul(t, x), y), fmul(s, z)), fadd(fmul(fmul(t, y), y), c),
                   fadd(fmul(fmul(t, y), z), fmul(s, x)), F(0)),
            float4(fadd(fmul(fmul(t, x), z), fmul(s, y)),
                   fsub(fmul(fmul(t, y), z), fmul(s, x)), fadd(fmul(fmul(t, z), z), c),
                   F(0)),
            float4(F(0), F(0), F(0), F(1)))

\* the view matrix whose rows are the camera axes x, y, z
view_matrix(x, y, z, eye) ==
    float4x4(float4(x.x, y.x, z.x, F(0)),
             float4(x.y, y.y, z.y, F(0)),
             float4(x.z, y.z, z.z, F(0)),
             float4(fneg(dot3(x, eye)), fneg(dot3(y, eye)), fneg(dot3(z, eye)), F(1)))

look_at_lh(eye, target, up) ==
    LET z == normalize3(sub3(target, eye))
        x == normalize3(cross(up, z))
        y == cross(z, x)
    IN  view_matrix(x, y, z, eye)

\* forward taken as in look_at_lh: target - eye
look_at_rh_forward_unreversed(eye, target, up) == look_at_lh(eye, target, up)

look_at_rh(eye, target, up) ==
    LET z == normalize3(sub3(eye, target))
        x == normalize3(cross(up, z))
        y == cross(z, x)
    IN  view_matrix(x, y, z, eye)

\* std::tan(rad * .5f)
tan_half(rad) == fdiv(sin_half(rad), cos_half(rad))

\* d taken as z_near / (z_far - z_near)
perspective_lh_near_scaled(fov_y_rad, aspect, z_near, z_far) ==
    LET h == fdiv(F(1), tan_half(fov_y_rad))
        w == fdiv(h, aspect)
        d == fdiv(z_near, fsub(z_far, z_near))
    IN  float4x4(float4(w, F(0), F(0), F(0)),
                 float4(F(0), h, F(0), F(0)),
                 float4(F(0), F(0), d, F(1)),
                 float4(F(0), F(0), fmul(fneg(d), z_near), F(0)))

perspective_lh(fov_y_rad, aspect, z_near, z_far) ==
    LET h == fdiv(F(1), tan_half(fov_y_rad))
        w == fdiv(h, aspect)
        d == fdiv(z_far, fsub(z_far, z_near))
    IN  float4x4(float4(w, F(0), F(0), F(0)),
                 float4(F(0), h, F(0), F(0)),
                 float4(F(0), F(0), d, F(1)),
                 float4(F(0), F(0), fmul(fneg(d), z_near), F(0)))

perspective_rh(fov_y_rad, aspect, z_near, z_far) ==
    LET h == fdiv(F(1), tan_half(fov_y_rad))
        w == fdiv(h, aspect)
        d == fdiv(z_far, fsub(z_near, z_far))
    IN  float4x4(float4(w, F(0), F(0), F(0)),
                 float4(F(0), h, F(0), F(0)),
                 float4(F(0), F(0), d, F(-1)),
                 float4(F(0), F(0), fmul(d, z_near), F(0)))

ortho_lh(width, height, z_near, z_far) ==
    LET r == fmul(width, Q(1, 2))
        t == fmul(height, Q(1, 2))
    IN  float4x4(float4(fdiv(F(1), r), F(0), F(0), F(0)),
                 float4(F(0), fdiv(F(1), t), F(0), F(0)),
                 float4(F(0), F(0), fdiv(F(1), fsub(z_far, z_near)), F(0)),
                 float4(F(0), F(0), fdiv(z_near, fsub(z_near, z_far)), F(1)))

ortho_rh(width, height, z_near, z_far) ==
    LET r == fmul(width, Q(1, 2))
        t == fmul(height, Q(1, 2))
    IN  float4x4(float4(fdiv(F(1), r), F(0), F(0), F(0)),
                 float4(F(0), fdiv(F(1), t), F(0), F(0)),
                 float4(F(0), F(0), fdiv(F(-2), fsub(z_far, z_near)), F(0)),
                 float4(F(0), F(0), fdiv(fadd(z_far, z_near), fsub(z_near, z_far)), F(1)))

-----------------------------------------------------------------------------
(* Quaternions: a float4 (x, y, z, w), vector part xyz, scalar part w *)

quat(x, y, z, w) == float4(x, y, z, w)

quat_identity == quat(F(0), F(0), F(0), F(1))

quat_from_axis_angle(axis, rad) ==
    LET s == sin_half(rad)
    IN  quat(fmul(axis.x, s), fmul(axis.y, s), fmul(axis.z, s), cos_half(rad))

quat_from_euler(yaw_z, pitch_x, roll_y) ==
    LET cy == cos_half(yaw_z)
        sy == sin_half(yaw_z)
        cp == cos_half(pitch_x)
        sp == sin_half(pitch_x)
        cr == cos_half(roll_y)
        sr == sin_half(roll_y)
    IN  quat(fsub(fmul(fmul(sr, cp), cy), fmul(fmul(cr, sp), sy)),
             fadd(fmul(fmul(cr, sp), cy), fmul(fmul(sr, cp), sy)),
             fsub(fmul(fmul(cr, cp), sy), fmul(fmul(sr, sp), cy)),
             fadd(fmul(fmul(cr, cp), cy), fmul(fmul(sr, sp), sy)))

mul_quat(qa, qb) ==
    quat(fsub(fadd(fadd(fmul(qa.w, qb.x), fmul(qa.x, qb.w)), fmul(qa.y, qb.z)),
              fmul(qa.z, qb.y)),
         fadd(fadd(fsub(fmul(qa.w, qb.y), fmul(qa.x, qb.z)), fmul(qa.y, qb.w)),
              fmul(qa.z, qb.x)),
         fadd(fsub(fadd(fmul(qa.w, qb.z), fmul(qa.x, qb.y)), fmul(qa.y, qb.x)),
              fmul(qa.z, qb.w)),
         fsub(fsub(fsub(fmul(qa.w, qb.w), fmul(qa.x, qb.x)), fmul(qa.y, qb.y)),
              fmul(qa.z, qb.z)))

conjugate(q) == quat(fneg(q.x), fneg(q.y), fneg(q.z), q.w)

rotate_vector(q, v) ==
    LET vq == quat(v.x, v.y, v.z, F(0))
        q_inv == conjugate(q)
        result == mul_quat(mul_quat(q, vq), q_inv)
    IN  xyz(result)

\* the conjugate returned undivided, whatever the length
inverse_quat_conjugate_only(q) == conjugate(q)

\* inverse(const quat&)
inverse_quat(q) ==
    LET len_sq == dot4(q, q)
    IN  IF almost_equal(len_sq, F(0), epsilon)
        THEN quat_identity
        ELSE scale4(fdiv(F(1), len_sq), conjugate(q))

nlerp(qa, qb, t) == normalize4(add4(qa, scale4(t, sub4(qb, qa))))

\* the dot product above which slerp falls back to nlerp
nlerp_threshold == Q(9995, 10000)

\* std::sin(f * std::acos(d)) for -1 <= d <= 1 and the factors f whose sine
\* is algebraic in d: 0, 1 and 1/2
sin_of_acos(f, d) ==
    IF f = F(0) THEN F(0)
    ELSE IF f = F(1) THEN fsqrt(fsub(F(1), fmul(d, d)))
    ELSE fsqrt(fdiv(fsub(F(1), d), F(2)))

\* d is negated but b is not: the long way round when dot(a, b) < 0
slerp_b_unflipped(qa, qb, t) ==
    LET d0 == dot4(qa, qb)
        d == IF flt(d0, F(0)) THEN fneg(d0) ELSE d0
    IN  IF fgt(d, nlerp_threshold) THEN nlerp(qa, qb, t)
        ELSE LET theta == clamp(d, F(-1), F(1))
                 sine == sin_of_acos(F(1), theta)
                 wa == fdiv(sin_of_acos(fsub(F(1), t), theta), sine)
                 wb == fdiv(sin_of_acos(t, theta), sine)
             IN  add4(scale4(wa, qa), scale4(wb, qb))

\* theta, the angle between a and b_adj, is carried as its cosine
slerp(qa, qb, t) ==
    LET d0 == dot4(qa, qb)
        b_adj == IF flt(d0, F(0)) THEN neg4(qb) ELSE qb
        d == IF flt(d0, F(0)) THEN fneg(d0) ELSE d0
    IN  IF fgt(d, nlerp_threshold) THEN nlerp(qa, b_adj, t)
        ELSE LET theta == clamp(d, F(-1), F(1))
                 sine == sin_of_acos(F(1), theta)
                 wa == fdiv(sin_of_acos(fsub(F(1), t), theta), sine)
                 wb == fdiv(sin_of_acos(t, theta), sine)
             IN  add4(scale4(wa, qa), scale4(wb, b_adj))

-----------------------------------------------------------------------------
(* float3x3: three float3 columns, column-major; m[c] is column c *)

float3x3(c0, c1, c2) == [c \in 0..2 |-> <<c0, c1, c2>>[c + 1]]

identity3x3 ==
    float3x3(float3(F(1), F(0), F(0)),
             float3(F(0), F(1), F(0)),
             float3(F(0), F(0), F(1)))

mul3x3v(m, v) ==
    add3(add3(scale3(v.x, m[0]), scale3(v.y, m[1])), scale3(v.z, m[2]))

mul3x3(ma, mb) ==
    float3x3(mul3x3v(ma, mb[0]), mul3x3v(ma, mb[1]), mul3x3v(ma, mb[2]))

transpose3x3(m) ==
    float3x3(float3(m[0].x, m[1].x, m[2].x),
             float3(m[0].y, m[1].y, m[2].y),
             float3(m[0].z, m[1].z, m[2].z))

\* the matrix returned as it came
inverse3x3_unchanged(m) == m

inverse3x3(m) == transpose3x3(m)

\* called by affine_inverse and normal_matrix; the Matrix3 fast path of the
\* specification: the transpose
inverse_orthonormal(m) == transpose3x3(m)

rotate3_x(rad) ==
    LET c == cos(rad)
        s == sin(rad)
    IN  float3x3(float3(F(1), F(0), F(0)),
                 float3(F(0), c, s),
                 float3(F(0), fneg(s), c))

rotate3_y(rad) ==
    LET c == cos(rad)
        s == sin(rad)
    IN  float3x3(float3(c, F(0), fneg(s)),
                 float3(F(0), F(1), F(0)),
                 float3(s, F(0), c))

rotate3_z(rad) ==
    LET c == cos(rad)
        s == sin(rad)
    IN  float3x3(float3(c, s, F(0)),
                 float3(fneg(s), c, F(0)),
                 float3(F(0), F(0), F(1)))

quat_to_float3x3_internal(q) ==
    LET xx == fmul(q.x, q.x)
        yy == fmul(q.y, q.y)
        zz == fmul(q.z, q.z)
        xy == fmul(q.x, q.y)
        xz == fmul(q.x, q.z)
        yz == fmul(q.y, q.z)
        wx == fmul(q.w, q.x)
        wy == fmul(q.w, q.y)
        wz == fmul(q.w, q.z)
    IN  float3x3(
            float3(fsub(F(1), fmul(F(2), fadd(yy, zz))), fmul(F(2), fsub(xy, wz)),
                   fmul(F(2), fadd(xz, wy))),
            float3(fmul(F(2), fadd(xy, wz)), fsub(F(1), fmul(F(2), fadd(xx, zz))),
                   fmul(F(2), fsub(yz, wx))),
            float3(fmul(F(2), fsub(xz, wy)), fmul(F(2), fadd(yz, wx)),
                   fsub(F(1), fmul(F(2), fadd(xx, yy)))))

\* float3x3::rotate_axis_angle
rotate3_axis_angle(axis, rad) ==
    quat_to_float3x3_internal(quat_from_axis_angle(axis, rad))

-----------------------------------------------------------------------------
(* Conversions *)

to_float3x3(q) ==
    LET xx == fmul(q.x, q.x)
        yy == fmul(q.y, q.y)
        zz == fmul(q.z, q.z)
        xy == fmul(q.x, q.y)
        xz == fmul(q.x, q.z)
        yz == fmul(q.y, q.z)
        wx == fmul(q.w, q.x)
        wy == fmul(q.w, q.y)
        wz == fmul(q.w, q.z)
    IN  float3x3(
            float3(fsub(F(1), fmul(F(2), fadd(yy, zz))), fmul(F(2), fsub(xy, wz)),
                   fmul(F(2), fadd(xz, wy))),
            float3(fmul(F(2), fadd(xy, wz)), fsub(F(1), fmul(F(2), fadd(xx, zz))),
                   fmul(F(2), fsub(yz, wx))),
            float3(fmul(F(2), fsub(xz, wy)), fmul(F(2), fadd(yz, wx)),
                   fsub(F(1), fmul(F(2), fadd(xx, yy)))))

\* the trace formula alone, whatever the diagonal
quat_branch_trace_only(m) == 1

\* the branch of quat_from_float3x3 that m selects, 1..4
quat_branch(m) ==
    IF fgt(fadd(fadd(m[0].x, m[1].y), m[2].z), F(0)) THEN 1
    ELSE IF fgt(m[0].x, m[1].y) /\ fgt(m[0].x, m[2].z) THEN 2
    ELSE IF fgt(m[1].y, m[2].z) THEN 3
    ELSE 4

\* the scale factor of the m00 branch, whichever branch is taken
quat_scale_of_m00(m) ==
    fmul(fsqrt(fsub(fsub(fadd(F(1), m[0].x), m[1].y), m[2].z)), F(2))
\* the scale factor s of the branch taken
quat_scale(m) ==
    LET b == quat_branch(m)
    IN  IF b = 1 THEN fmul(fsqrt(fadd(fadd(fadd(m[0].x, m[1].y), m[2].z), F(1))), F(2))
        ELSE IF b = 2
        THEN fmul(fsqrt(fsub(fsub(fadd(F(1), m[0].x), m[1].y), m[2].z)), F(2))
        ELSE IF b = 3
        THEN fmul(fsqrt(fsub(fsub(fadd(F(1), m[1].y), m[0].x), m[2].z)), F(2))
        ELSE fmul(fsqrt(fsub(fsub(fadd(F(1), m[2].z), m[0].x), m[1].y)), F(2))

quat_from_float3x3(m) ==
    LET b == quat_branch(m)
        s == quat_scale(m)
        quarter == fmul(Q(1, 4), s)
    IN  IF b = 1
        THEN quat(fdiv(fsub(m[2].y, m[1].z), s), fdiv(fsub(m[0].z, m[2].x), s),
                  fdiv(fsub(m[1].x, m[0].y), s), quarter)
        ELSE IF b = 2
        THEN quat(quarter, fdiv(fadd(m[0].y, m[1].x), s),
                  fdiv(fadd(m[0].z, m[2].x), s), fdiv(fsub(m[2].y, m[1].z), s))
        ELSE IF b = 3
        THEN quat(fdiv(fadd(m[0].y, m[1].x), s), quarter,
                  fdiv(fadd(m[1].z, m[2].y), s), fdiv(fsub(m[0].z, m[2].x), s))
        ELSE quat(fdiv(fadd(m[0].z, m[2].x), s), fdiv(fadd(m[1].z, m[2].y), s),
                  quarter, fdiv(fsub(m[1].x, m[0].y), s))

\* the upper-left 3x3 of a float4x4: its first three columns' xyz
upper3x3(m) == float3x3(xyz(m[0]), xyz(m[1]), xyz(m[2]))

\* affine_inverse that passes the w components of its argument's first
\* three columns on
affine_inverse_keeping_w(m) ==
    LET rot_inv == inverse_orthonormal(upper3x3(m))
        inv_trans == neg3(mul3x3v(rot_inv, xyz(m[3])))
    IN  float4x4(float4(rot_inv[0].x, rot_inv[0].y, rot_inv[0].z, m[0].w),
                 float4(rot_inv[1].x, rot_inv[1].y, rot_inv[1].z, m[1].w),
                 float4(rot_inv[2].x, rot_inv[2].y, rot_inv[2].z, m[2].w),
                 float4(inv_trans.x, inv_trans.y, inv_trans.z, F(1)))
\* affine_inverse with the translation negated but not rotated back
affine_inverse_translation_unrotated(m) ==
    LET rot_inv == inverse_orthonormal(upper3x3(m))
        inv_trans == neg3(xyz(m[3]))
    IN  float4x4(float4(rot_inv[0].x, rot_inv[0].y, rot_inv[0].z, F(0)),
                 float4(rot_inv[1].x, rot_inv[1].y, rot_inv[1].z, F(0)),
                 float4(rot_inv[2].x, rot_inv[2].y, rot_inv[2].z, F(0)),
                 float4(inv_trans.x, inv_trans.y, inv_trans.z, F(1)))
affine_inverse(m) ==
    LET rot == upper3x3(m)
        rot_inv == inverse_orthonormal(rot)
        trans == xyz(m[3])
        inv_trans == neg3(mul3x3v(rot_inv, trans))
    IN  float4x4(float4(rot_inv[0].x, rot_inv[0].y, rot_inv[0].z, F(0)),
                 float4(rot_inv[1].x, rot_inv[1].y, rot_inv[1].z, F(0)),
                 float4(rot_inv[2].x, rot_inv[2].y, rot_inv[2].z, F(0)),
                 float4(inv_trans.x, inv_trans.y, inv_trans.z, F(1)))

normal_matrix(m) == inverse_orthonormal(upper3x3(m))

-----------------------------------------------------------------------------
(* inverse(const float4x4&): Gauss-Jordan elimination with partial pivoting. *)
(* a and inv are float[4][4], row-major: a[r][k].                            *)

\* the row-major copy of m
row_major(m) ==
    [r \in 0..3 |-> [k \in 0..3 |->
        IF r = 0 THEN m[k].x ELSE IF r = 1 THEN m[k].y
        ELSE IF r = 2 THEN m[k].z ELSE m[k].w]]

augmented_identity == [r \in 0..3 |-> [k \in 0..3 |-> IF r = k THEN F(1) ELSE F(0)]]

\* the pivot search over rows j..3 of column col, from the best so far
RECURSIVE partial_pivot(_, _, _, _)
partial_pivot(w, col, j, best) ==
    IF j >= 4 THEN best
    ELSE LET val == fabs(w[j][col])
         IN  IF fgt(val, best.max_val)
             THEN partial_pivot(w, col, j + 1, [pivot |-> j, max_val |-> val])
             ELSE partial_pivot(w, col, j + 1, best)

\* the pivot search left out: the diagonal entry is the pivot
find_pivot_unsearched(w, col) == [pivot |-> col, max_val |-> fabs(w[col][col])]
find_pivot(w, col) ==
    partial_pivot(w, col, col + 1, [pivot |-> col, max_val |-> fabs(w[col][col])])

swap_rows(w, r1, r2) ==
    [r \in 0..3 |-> IF r = r1 THEN w[r2] ELSE IF r = r2 THEN w[r1] ELSE w[r]]

\* the row left as it is
normalize_row_skipped(w, r, inv_pivot) == w
normalize_row(w, r, inv_pivot) ==
    [w EXCEPT ![r] = [k \in 0..3 |-> fmul(w[r][k], inv_pivot)]]

\* eliminate as a forward elimination only: the rows above the pivot are left alone
eliminate_below_only(w, r, factors) ==
    [j \in 0..3 |->
        IF j <= r THEN w[j]
        ELSE [k \in 0..3 |-> fsub(w[j][k], fmul(w[r][k], factors[j]))]]

\* rows of w minus factors[j] times the pivot row r of w
eliminate(w, r, factors) ==
    [j \in 0..3 |->
        IF j = r THEN w[j]
        ELSE [k \in 0..3 |-> fsub(w[j][k], fmul(w[r][k], factors[j]))]]

\* one iteration that swaps the rows of a only
gj_iteration_inv_unswapped(wa, winv, col) ==
    LET p == find_pivot(wa, col).pivot
        sa == IF p # col THEN swap_rows(wa, col, p) ELSE wa
        inv_pivot == fdiv(F(1), sa[col][col])
        na == normalize_row(sa, col, inv_pivot)
        ninv == normalize_row(winv, col, inv_pivot)
        factors == [j \in 0..3 |-> na[j][col]]
    IN  [a |-> eliminate(na, col, factors), inv |-> eliminate(ninv, col, factors),
         pivot |-> p]
\* one iteration of the pivot loop that is not the singular exit
gj_iteration(wa, winv, col) ==
    LET p == find_pivot(wa, col).pivot
        sa == IF p # col THEN swap_rows(wa, col, p) ELSE wa
        sinv == IF p # col THEN swap_rows(winv, col, p) ELSE winv
        inv_pivot == fdiv(F(1), sa[col][col])
        na == normalize_row(sa, col, inv_pivot)
        ninv == normalize_row(sinv, col, inv_pivot)
        factors == [j \in 0..3 |-> na[j][col]]
    IN  [a |-> eliminate(na, col, factors), inv |-> eliminate(ninv, col, factors),
         pivot |-> p]

\* the singular test for an exactly zero pivot only
is_singular_only_zero(wa, col) == find_pivot(wa, col).max_val = F(0)
\* the singular test left out
is_singular_never(wa, col) == FALSE

is_singular_at(wa, col) == flt(find_pivot(wa, col).max_val, epsilon)

\* inv transposed back into a column-major float4x4
from_rows(w) ==
    float4x4(float4(w[0][0], w[1][0], w[2][0], w[3][0]),
             float4(w[0][1], w[1][1], w[2][1], w[3][1]),
             float4(w[0][2], w[1][2], w[2][2], w[3][2]),
             float4(w[0][3], w[1][3], w[2][3], w[3][3]))

RECURSIVE gj_loop(_, _, _)
gj_loop(wa, winv, col) ==
    IF col >= 4 THEN from_rows(winv)
    ELSE IF is_singular_at(wa, col) THEN identity4x4
    ELSE LET n == gj_iteration(wa, winv, col)
         IN  gj_loop(n.a, n.inv, col + 1)

inverse4x4(m) == gj_loop(row_major(m), augmented_identity, 0)

-----------------------------------------------------------------------------
(* Inputs *)

\* integer coordinates of the input vectors run over -MaxCoord..MaxCoord
MaxCoord == 1

Coords == {F(n) : n \in -MaxCoord..MaxCoord}

Vec3s == {float3(x, y, z) : x \in Coords, y \in Coords, z \in Coords}

\* points (w = 1) and directions (w = 0)
Vec4s == {float4(v.x, v.y, v.z, w) : v \in Vec3s, w \in {F(0), F(1)}}

\* angles whose half-angle sine and cosine are rational: 0, pi, and
\* +-2*atan(3/4), 2*atan(4/3), 2*atan(5/12)
Angles ==
    {Angle(F(1), F(0)), Angle(F(0), F(1)), Angle(Q(4, 5), Q(3, 5)),
     Angle(Q(3, 5), Q(4, 5)), Angle(Q(4, 5), Q(-3, 5)), Angle(Q(12, 13), Q(5, 13))}

\* pi / 2, for the builders that take only its sine and cosine
QuarterTurn == [c |-> F(0), s |-> F(1)]

RotAngles == Angles \cup {QuarterTurn}

\* unit quaternions with rational components
UnitQuats ==
    {quat(F(0), F(0), F(0), F(1)), quat(F(1), F(0), F(0), F(0)),
     quat(F(0), F(1), F(0), F(0)), quat(F(0), F(0), F(1), F(0)),
     quat(F(0), F(0), Q(3, 5), Q(4, 5)), quat(Q(3, 5), F(0), F(0), Q(4, 5)),
     quat(F(0), Q(3, 5), F(0), Q(4, 5)), quat(F(0), F(0), Q(4, 5), Q(3, 5)),
     quat(Q(4, 5), F(0), F(0), Q(3, 5)), quat(F(0), Q(-4, 5), F(0), Q(3, 5)),
     quat(Q(1, 2), Q(1, 2), Q(1, 2), Q(1, 2)), quat(Q(1, 2), Q(1, 2), Q(1, 2), Q(-1, 2)),
     quat(Q(-1, 2), Q(1, 2), Q(-1, 2), Q(1, 2)),
     quat(Q(2, 3), Q(2, 3), Q(1, 3), F(0)), quat(Q(1, 3), Q(2, 3), Q(2, 3), F(0)),
     quat(Q(2, 3), Q(1, 3), Q(2, 3), F(0)), quat(Q(-2, 3), Q(1, 3), Q(2, 3), F(0)),
     quat(Q(2, 3), Q(1, 3), F(0), Q(2, 3)), quat(Q(2, 3), F(0), Q(1, 3), Q(-2, 3)),
     quat(Q(4, 5), F(0), Q(3, 5), F(0)), quat(F(0), Q(3, 5), Q(4, 5), F(0)),
     quat(Q(3, 5), Q(4, 5), F(0), F(0)), quat(Q(3, 5), Q(-4, 5), F(0), F(0)),
     quat(Q(2, 7), Q(3, 7), Q(6, 7), F(0)), quat(Q(6, 7), Q(2, 7), Q(3, 7), F(0)),
     quat(Q(3, 7), Q(6, 7), Q(-2, 7), F(0)),
     quat(Q(2, 5), Q(2, 5), Q(4, 5), Q(1, 5)), quat(Q(4, 5), Q(2, 5), Q(2, 5), Q(-1, 5)),
     quat(Q(2, 5), Q(-4, 5), Q(2, 5), Q(1, 5))}

\* translations: the small integer ones and the validation program's
Translations ==
    {float3(F(x), F(y), F(z)) : x \in 0..MaxCoord, y \in 0..MaxCoord, z \in 0..MaxCoord}
        \cup {float3(F(10), F(20), F(30)), float3(F(2), F(3), F(4))}

Rotations4 ==
    {rotate_x(r) : r \in RotAngles} \cup {rotate_y(r) : r \in RotAngles}
        \cup {rotate_z(r) : r \in RotAngles}
        \cup {rotate_axis_angle(float3(F(2), F(2), F(1)), r) : r \in Angles}

UniformScales == {F(1), F(2), Q(1, 2), F(-1), F(3)}

\* model matrices translate(t) * R * scale(s, s, s), s # 0
UniformModels ==
    {mul4x4(mul4x4(translate(t), r), scale(float3(s, s, s))) :
        t \in Translations, r \in Rotations4, s \in UniformScales}

\* rigid transforms translate(t) * R
RigidModels == {mul4x4(translate(t), r) : t \in Translations, r \in Rotations4}

\* the validation program's matrices
TestT == mul4x4(translate(float3(F(2), F(3), F(4))), scale(float3(F(2), F(1), Q(1, 2))))

TestM ==
    float4x4(float4(F(1), F(2), F(3), F(4)), float4(F(0), F(5), F(1), F(2)),
             float4(F(7), F(8), F(9), F(0)), float4(F(2), F(1), F(4), F(5)))

TestModel ==
    mul4x4(mul4x4(translate(float3(F(10), F(20), F(30))), rotate_y(QuarterTurn)),
           scale(float3(F(2), F(2), F(2))))

\* matrices whose columns are drawn from the columns of TestM and zero
Columns ==
    {TestM[c] : c \in 0..3} \cup {float4(F(0), F(0), F(0), F(0))}

ColumnMatrices ==
    {float4x4(c0, c1, c2, c3) : c0 \in Columns, c1 \in Columns, c2 \in Columns,
        c3 \in Columns}

\* scale(d, d, d) with its w entry scaled likewise
Diagonal(d) ==
    float4x4(float4(d, F(0), F(0), F(0)), float4(F(0), d, F(0), F(0)),
             float4(F(0), F(0), d, F(0)), float4(F(0), F(0), F(0), d))

\* two equal rows
EqualRows == transpose4x4(float4x4(TestM[0], TestM[1], TestM[0], TestM[3]))

NonUniformModels ==
    {mul4x4(mul4x4(translate(t), r), scale(float3(F(2), F(1), Q(1, 2)))) :
        t \in {float3(F(2), F(3), F(4))}, r \in Rotations4}

InverseInputs ==
    {identity4x4, TestT, TestM, TestModel, EqualRows, Diagonal(F(0)),
     Diagonal(Q(1, 10000000)), Diagonal(Q(1, 1000)), transpose4x4(TestM),
     \* rows 1 and 2 tie for the pivot of column 0
     float4x4(float4(F(1), F(-2), F(2), F(0)), float4(F(0), F(1), F(0), F(0)),
              float4(F(0), F(0), F(1), F(0)), float4(F(0), F(0), F(0), F(1)))}
        \cup ColumnMatrices \cup NonUniformModels
        \cup {m \in UniformModels : m[3].x = F(2)}

\* m with the w components of its columns replaced by those of row
with_bottom_row(m, row) ==
    float4x4(float4(m[0].x, m[0].y, m[0].z, row.x), float4(m[1].x, m[1].y, m[1].z, row.y),
             float4(m[2].x, m[2].y, m[2].z, row.z), float4(m[3].x, m[3].y, m[3].z, row.w))
\* bottom rows: that of an affine matrix and others
BottomRows ==
    {float4(F(0), F(0), F(0), F(1)), float4(F(4), F(2), F(0), F(5)),
     float4(F(1), F(1), F(1), F(1)), float4(F(0), F(0), F(0), F(0))}
AffineInputs == UniformModels \cup RigidModels

\* operands of the matrix products
Mats4 ==
    {identity4x4, TestT, TestM, TestModel, translate(float3(F(1), F(2), F(3))),
     scale(float3(F(2), F(3), F(4))), scale(float3(F(2), F(2), F(2))),
     rotate_x(QuarterTurn), rotate_y(QuarterTurn), rotate_z(Angle(Q(4, 5), Q(3, 5))),
     mul4x4(translate(float3(F(10), F(20), F(30))), rotate_y(QuarterTurn)),
     Diagonal(F(0))}

Mats3 ==
    {identity3x3, rotate3_x(QuarterTurn), rotate3_y(QuarterTurn),
     rotate3_z(QuarterTurn), rotate3_z(Angle(Q(4, 5), Q(3, 5))),
     upper3x3(TestM), upper3x3(TestT), upper3x3(TestModel)}
        \cup {to_float3x3(q) : q \in {quat(Q(1, 2), Q(1, 2), Q(1, 2), Q(1, 2)),
                                      quat(Q(2, 3), Q(1, 3), F(0), Q(2, 3))}}

\* sqrt(r) is a float of the model
IsSquareInt(n) == \E r \in 0..n : r * r = n

HasRoot(r) == IsFinite(r) /\ r[1] >= 0 /\ IsSquareInt(r[1]) /\ IsSquareInt(r[2])

\* integer components of the vectors to normalize run over
\* -MaxComponent..MaxComponent
MaxComponent == 4

Components == {F(n) : n \in -MaxComponent..MaxComponent}

\* the factors that bring a vector down towards epsilon
SmallFactors == {F(1), Q(1, 2), Q(1, 1000)}

\* 2-, 3- and 4-component vectors of rational length, the zero vectors among
\* them
Norm2Inputs ==
    {scale2(k, v) : k \in SmallFactors,
        v \in {u \in {float2(x, y) : x \in Components, y \in Components} :
                  HasRoot(dot2(u, u))}}

Norm3Inputs ==
    {scale3(k, v) : k \in SmallFactors,
        v \in {u \in {float3(x, y, z) : x \in Components, y \in Components,
                          z \in Coords} : HasRoot(dot3(u, u))}}

Norm4Inputs ==
    {scale4(k, v) : k \in SmallFactors,
        v \in UnitQuats \cup {u \in {float4(p.x, p.y, p.z, w) : p \in Vec3s, w \in Coords} :
                                  HasRoot(dot4(u, u))}}

\* quaternions of every length: unit, longer, shorter, and with dot(q, q)
\* 4e-6, 1e-6, 2.5e-7 and 0
Quats ==
    {scale4(k, q) : k \in {F(1), F(2), Q(1, 2), Q(2, 1000), Q(1, 1000), Q(1, 2000), F(0)},
        q \in UnitQuats}

\* interpolation factors
Factors == {F(0), Q(1, 2), F(1)}

\* end points of an interpolation: unit quaternions, their antipodes, and
\* some that are not of unit length
EndPoints ==
    {quat_identity, quat(F(0), F(0), F(0), F(-1)), quat(F(0), F(0), Q(3, 5), Q(4, 5)),
     quat(F(0), F(0), Q(-3, 5), Q(-4, 5)), quat(F(0), F(0), Q(4, 5), Q(3, 5)),
     quat(F(0), F(0), Q(24, 25), Q(7, 25)), quat(F(0), F(0), Q(-24, 25), Q(-7, 25)),
     quat(F(1), F(0), F(0), F(0)), quat(Q(3, 5), Q(4, 5), F(0), F(0)),
     quat(Q(1, 2), Q(1, 2), Q(1, 2), Q(1, 2)), quat(F(0), F(0), F(0), F(2)),
     quat(F(0), F(0), Q(16, 15), Q(4, 5)), quat(F(0), F(0), F(0), F(0))}

\* the interpolations whose normalization has a rational length
NlerpInputs ==
    {in \in EndPoints \X EndPoints \X Factors :
        LET l == add4(in[1], scale4(in[3], sub4(in[2], in[1])))
        IN  HasRoot(dot4(l, l))}

\* the interpolations whose sines (or whose nlerp fallback) are rational
SlerpInputs ==
    {in \in EndPoints \X EndPoints \X Factors :
        LET d == fabs(dot4(in[1], in[2]))
            b_adj == IF flt(dot4(in[1], in[2]), F(0)) THEN neg4(in[2]) ELSE in[2]
        IN  IF fgt(d, nlerp_threshold) THEN <<in[1], b_adj, in[3]>> \in NlerpInputs
            ELSE /\ HasRoot(fsub(F(1), fmul(d, d)))
                 /\ in[3] = Q(1, 2) => HasRoot(fdiv(fsub(F(1), d), F(2)))}

\* orthonormal rotation matrices: the builders' and those of the unit
\* quaternions, in the layout of to_float3x3 and transposed
Rotations3 ==
    {rotate3_x(r) : r \in Angles} \cup {rotate3_y(r) : r \in Angles}
        \cup {rotate3_z(r) : r \in Angles}
        \cup {to_float3x3(q) : q \in UnitQuats}
        \cup {transpose3x3(to_float3x3(q)) : q \in UnitQuats}

\* operands of inverse(float3x3): rotations and matrices that are not
Inverse3Inputs ==
    Mats3 \cup {upper3x3(scale(float3(F(2), F(2), F(2))))}
        \cup {rotate3_x(r) : r \in Angles}

\* unit rotation axes
UnitAxes ==
    {float3(F(1), F(0), F(0)), float3(F(0), F(1), F(0)), float3(F(0), F(0), F(1)),
     float3(Q(2, 3), Q(2, 3), Q(1, 3)), float3(Q(3, 5), F(0), Q(-4, 5))}

\* projection parameters, 0 < z_near < z_far
Aspects == {F(1), Q(16, 9), Q(1, 2)}

ClipPlanes ==
    {p \in {Q(1, 10), F(1), F(2), F(100)} \X {Q(1, 10), F(1), F(2), F(100)} :
        flt(p[1], p[2])}

\* cameras <<eye, target - eye, up>>: eye # target, up not parallel to
\* target - eye, and both normalizations of rational length
LookAtInputs ==
    {in \in {float3(F(0), F(0), F(0)), float3(F(1), F(1), F(1)),
              float3(F(10), F(20), F(30)), float3(F(-1), Q(1, 2), F(0))}
            \X (Norm3Inputs \ {float3(F(0), F(0), F(0))})
            \X {float3(F(0), F(1), F(0)), float3(F(0), F(0), F(1)),
                float3(F(0), F(2), F(0))} :
        LET z == normalize3(in[2])
            x == cross(in[3], z)
        IN  x # float3(F(0), F(0), F(0)) /\ HasRoot(dot3(x, x))}

-----------------------------------------------------------------------------
(* State: pc is "idle" before a call and "done" after it returns ("gj"     *)
(* inside the pivot loop of inverse); op names the function called, arg    *)
(* its arguments and out its result.  a, inv, i and pivot are the locals   *)
(* of inverse(const float4x4&).                                            *)

Init ==
    /\ pc = "idle"
    /\ op = "none"
    /\ arg = <<>>
    /\ out = <<>>
    /\ a = <<>>
    /\ inv = <<>>
    /\ i = 0
    /\ pivot = 0

\* the effect of a function call that returns in one step
Return(name, args, result) ==
    /\ pc' = "done"
    /\ op' = name
    /\ arg' = args
    /\ out' = result
    /\ UNCHANGED <<a, inv, i, pivot>>

InverseBegin ==
    \E m \in InverseInputs :
        /\ pc = "idle"
        /\ pc' = "gj"
        /\ op' = "inverse"
        /\ arg' = [m |-> m]
        /\ a' = row_major(m)
        /\ inv' = augmented_identity
        /\ i' = 0
        /\ UNCHANGED <<out, pivot>>

InverseSingularReturn ==
    /\ pc = "gj"
    /\ i < 4
    /\ is_singular_at(a, i)
    /\ pc' = "done"
    /\ out' = identity4x4
    /\ pivot' = find_pivot(a, i).pivot
    /\ UNCHANGED <<op, arg, a, inv, i>>

InversePivotStep ==
    /\ pc = "gj"
    /\ i < 4
    /\ ~is_singular_at(a, i)
    /\ LET n == gj_iteration(a, inv, i)
       IN  /\ a' = n.a
           /\ inv' = n.inv
           /\ pivot' = n.pivot
    /\ i' = i + 1
    /\ UNCHANGED <<pc, op, arg, out>>

InverseReturn ==
    /\ pc = "gj"
    /\ i >= 4
    /\ pc' = "done"
    /\ out' = from_rows(inv)
    /\ UNCHANGED <<op, arg, a, inv, i, pivot>>

AffineInverse ==
    \E m \in AffineInputs
            \cup {with_bottom_row(n, row) : n \in {TestM, TestModel, TestT},
                      row \in BottomRows} :
        /\ pc = "idle"
        /\ Return("affine_inverse", [m |-> m], affine_inverse(m))

NormalMatrix ==
    \E m \in AffineInputs :
        /\ pc = "idle"
        /\ Return("normal_matrix", [m |-> m], normal_matrix(m))

RotateVector ==
    \E q \in UnitQuats, v \in Vec3s :
        /\ pc = "idle"
        /\ Return("rotate_vector", [q |-> q, v |-> v], rotate_vector(q, v))

QuatFromFloat3x3 ==
    \E m \in Rotations3 :
        /\ pc = "idle"
        /\ Return("quat_from_float3x3", [m |-> m], quat_from_float3x3(m))

Mul4x4 ==
    \E ma \in Mats4, mb \in Mats4 :
        /\ pc = "idle"
        /\ Return("mul4x4", [a |-> ma, b |-> mb], mul4x4(ma, mb))

Mul3x3 ==
    \E ma \in Mats3, mb \in Mats3 :
        /\ pc = "idle"
        /\ Return("mul3x3", [a |-> ma, b |-> mb], mul3x3(ma, mb))

MulQuat ==
    \E qa \in UnitQuats, qb \in UnitQuats :
        /\ pc = "idle"
        /\ Return("mul_quat", [a |-> qa, b |-> qb], mul_quat(qa, qb))

QuatFromEuler ==
    \E yaw_z \in Angles, pitch_x \in Angles, roll_y \in Angles :
        /\ pc = "idle"
        /\ Return("quat_from_euler", [yaw_z |-> yaw_z, pitch_x |-> pitch_x, roll_y |-> roll_y],
               quat_from_euler(yaw_z, pitch_x, roll_y))

Mul4x4V ==
    \E m \in Mats4 \cup {rotate_z(QuarterTurn)}, v \in Vec4s :
        /\ pc = "idle"
        /\ Return("mul4x4v", [m |-> m, v |-> v], mul4x4v(m, v))

Mul3x3V ==
    \E m \in Mats3 \cup {rotate3_z(QuarterTurn)}, v \in Vec3s :
        /\ pc = "idle"
        /\ Return("mul3x3v", [m |-> m, v |-> v], mul3x3v(m, v))

Normalize2 ==
    \E v \in Norm2Inputs :
        /\ pc = "idle"
        /\ Return("normalize2", [v |-> v], normalize2(v))

Normalize3 ==
    \E v \in Norm3Inputs :
        /\ pc = "idle"
        /\ Return("normalize3", [v |-> v], normalize3(v))

Normalize4 ==
    \E v \in Norm4Inputs :
        /\ pc = "idle"
        /\ Return("normalize4", [v |-> v], normalize4(v))

InverseQuat ==
    \E q \in Quats :
        /\ pc = "idle"
        /\ Return("inverse_quat", [q |-> q], inverse_quat(q))

Inverse3x3 ==
    \E m \in Inverse3Inputs :
        /\ pc = "idle"
        /\ Return("inverse3x3", [m |-> m], inverse3x3(m))

Nlerp ==
    \E in \in NlerpInputs :
        /\ pc = "idle"
        /\ Return("nlerp", [a |-> in[1], b |-> in[2], t |-> in[3]],
               nlerp(in[1], in[2], in[3]))

Slerp ==
    \E in \in SlerpInputs :
        /\ pc = "idle"
        /\ Return("slerp", [a |-> in[1], b |-> in[2], t |-> in[3]],
               slerp(in[1], in[2], in[3]))

Rotate3AxisAngle ==
    \E axis \in UnitAxes, rad \in Angles :
        /\ pc = "idle"
        /\ Return("rotate3_axis_angle", [axis |-> axis, rad |-> rad],
               rotate3_axis_angle(axis, rad))

PerspectiveLh ==
    \E fov_y_rad \in Angles, aspect \in Aspects, clip \in ClipPlanes :
        /\ pc = "idle"
        /\ Return("perspective_lh",
               [fov_y_rad |-> fov_y_rad, aspect |-> aspect, z_near |-> clip[1],
                z_far |-> clip[2]],
               perspective_lh(fov_y_rad, aspect, clip[1], clip[2]))

PerspectiveRh ==
    \E fov_y_rad \in Angles, aspect \in Aspects, clip \in ClipPlanes :
        /\ pc = "idle"
        /\ Return("perspective_rh",
               [fov_y_rad |-> fov_y_rad, aspect |-> aspect, z_near |-> clip[1],
                z_far |-> clip[2]],
               perspective_rh(fov_y_rad, aspect, clip[1], clip[2]))

LookAtLh ==
    \E in \in LookAtInputs :
        /\ pc = "idle"
        /\ Return("look_at_lh",
               [eye |-> in[1], target |-> add3(in[1], in[2]), up |-> in[3]],
               look_at_lh(in[1], add3(in[1], in[2]), in[3]))

LookAtRh ==
    \E in \in LookAtInputs :
        /\ pc = "idle"
        /\ Return("look_at_rh",
               [eye |-> in[1], target |-> add3(in[1], in[2]), up |-> in[3]],
               look_at_rh(in[1], add3(in[1], in[2]), in[3]))

Faceforward ==
    \E n \in {float3(F(1), F(0), F(0)), float3(F(1), F(-2), F(3))}, i0 \in Vec3s,
       nref \in UnitAxes :
        /\ pc = "idle"
        /\ Return("faceforward", [n |-> n, i |-> i0, nref |-> nref],
               faceforward(n, i0, nref))

Cross ==
    \E u \in Vec3s, v \in Vec3s :
        /\ pc = "idle"
        /\ Return("cross", [a |-> u, b |-> v], cross(u, v))
\* view volumes: width, height and the two clip distances, z_near # z_far
OrthoLh ==
    \E width \in {F(2), F(4), Q(1, 2)}, height \in {F(2), F(4), Q(1, 2)},
       z_near \in {Q(1, 10), F(1), F(2), F(100)}, z_far \in {Q(1, 10), F(1), F(2), F(100)} :
        /\ pc = "idle"
        /\ z_near # z_far
        /\ Return("ortho_lh",
               [width |-> width, height |-> height, z_near |-> z_near, z_far |-> z_far],
               ortho_lh(width, height, z_near, z_far))

OrthoRh ==
    \E width \in {F(2), F(4), Q(1, 2)}, height \in {F(2), F(4), Q(1, 2)},
       z_near \in {Q(1, 10), F(1), F(2), F(100)}, z_far \in {Q(1, 10), F(1), F(2), F(100)} :
        /\ pc = "idle"
        /\ z_near # z_far
        /\ Return("ortho_rh",
               [width |-> width, height |-> height, z_near |-> z_near, z_far |-> z_far],
               ortho_rh(width, height, z_near, z_far))

Next ==
    \/ InverseBegin
    \/ InverseSingularReturn
    \/ InversePivotStep
    \/ InverseReturn
    \/ AffineInverse
    \/ NormalMatrix
    \/ RotateVector
    \/ QuatFromFloat3x3
    \/ Mul4x4
    \/ Mul3x3
    \/ MulQuat
    \/ QuatFromEuler
    \/ Mul4x4V
    \/ Mul3x3V
    \/ Normalize2
    \/ Normalize3
    \/ Normalize4
    \/ InverseQuat
    \/ Inverse3x3
    \/ Nlerp
    \/ Slerp
    \/ Rotate3AxisAngle
    \/ PerspectiveLh
    \/ PerspectiveRh
    \/ LookAtLh
    \/ LookAtRh
    \/ Faceforward
    \/ Cross
    \/ OrthoLh
    \/ OrthoRh

Spec == Init /\ [][Next]_vars

\* the calls of inverse alone
InverseNext ==
    \/ InverseBegin
    \/ InverseSingularReturn
    \/ InversePivotStep
    \/ InverseReturn

\* what every step inside inverse does to its control state: the loop
\* counter advances or the function returns
LoopStep ==
    /\ pc = "gj"
    /\ pc' \in {"gj", "done"}
    /\ i' \in {i, i + 1}
    /\ <<pc', i'>> # <<pc, i>>

\* inverse is straight-line code around a bounded loop: once entered, it
\* takes its next iteration or one of its two returns
FairSpec == Init /\ [][InverseNext]_vars /\ WF_<<pc, i>>(LoopStep)

-----------------------------------------------------------------------------
(* Properties *)

Returned(name) == pc = "done" /\ op = name

\* exact elimination (no tolerance) finds a non-zero pivot in columns col..3
RECURSIVE FullRankFrom(_, _)
FullRankFrom(rows, col) ==
    \/ col >= 4
    \/ /\ find_pivot(rows, col).max_val # F(0)
       /\ FullRankFrom(gj_iteration(rows, rows, col).a, col + 1)

\* m is invertible: its determinant is not zero
Invertible(m) == FullRankFrom(row_major(m), 0)

\* every component of ma is within eps of that of mb
Within4x4(ma, mb, eps) ==
    \A c \in 0..3 :
        /\ almost_equal(ma[c].x, mb[c].x, eps)
        /\ almost_equal(ma[c].y, mb[c].y, eps)
        /\ almost_equal(ma[c].z, mb[c].z, eps)
        /\ almost_equal(ma[c].w, mb[c].w, eps)

IsInverseOf(mi, m) ==
    /\ Within4x4(mul4x4(mi, m), identity4x4, GENERAL_EPS)
    /\ Within4x4(mul4x4(m, mi), identity4x4, GENERAL_EPS)

Finite4x4(m) ==
    \A c \in 0..3 :
        IsFinite(m[c].x) /\ IsFinite(m[c].y) /\ IsFinite(m[c].z) /\ IsFinite(m[c].w)

\* the matrices claim C1 names: identity, translate * scale, a rotation, TestM
C1Named ==
    {identity4x4, TestT, TestM,
     rotate_axis_angle(float3(F(2), F(2), F(1)), Angle(Q(4, 5), Q(3, 5)))}

Within3(u, v, eps) ==
    /\ almost_equal(u.x, v.x, eps)
    /\ almost_equal(u.y, v.y, eps)
    /\ almost_equal(u.z, v.z, eps)

Within4(u, v, eps) == Within3(u, v, eps) /\ almost_equal(u.w, v.w, eps)

Points == {p \in Vec4s : p.w = F(1)}

\* C3 as stated: for every model = translate(t) * R * scale(s, s, s), s # 0,
\* and every point local = (x, y, z, 1),
\* affine_inverse(model) * (model * local) is local.
C3_AffineInverseUndoesUniformScale ==
    (Returned("affine_inverse") /\ arg.m \in UniformModels) =>
        \A local \in Points :
            Within4(mul4x4v(out, mul4x4v(arg.m, local)), local, GENERAL_EPS)

\* C4 as stated: for every unit quaternion q and vector v,
\* mul(to_float3x3(q), v) is rotate_vector(q, v).
C4_MatrixFormRotatesAsQuaternion ==
    Returned("rotate_vector") =>
        Within3(mul3x3v(to_float3x3(arg.q), arg.v), out, GENERAL_EPS)

\* C5: for every unit quaternion q, quat_from_float3x3(to_float3x3(q)) is q
\* or -q.
C5_QuatRoundTripUpToSign ==
    Returned("quat_from_float3x3") =>
        \A q \in UnitQuats : to_float3x3(q) = arg.m => (out = q \/ out = neg4(q))

\* the round trip of a quaternion with w = 0 and y < 0 the largest component
\* has gone through the m11 branch and come back negated
C5_Witness ==
    /\ Returned("quat_from_float3x3")
    /\ quat_branch(arg.m) = 3
    /\ arg.m = to_float3x3(quat(Q(3, 5), Q(-4, 5), F(0), F(0)))
    /\ out = quat(Q(-3, 5), Q(4, 5), F(0), F(0))

C7_FirstOperandAppliedFirst ==
    /\ Returned("mul4x4") =>
           \A v \in Vec4s : mul4x4v(out, v) = mul4x4v(arg.b, mul4x4v(arg.a, v))
    /\ Returned("mul3x3") =>
           \A v \in Vec3s : mul3x3v(out, v) = mul3x3v(arg.b, mul3x3v(arg.a, v))

\* C8 as stated: quaternion mul(a, b) is rotation a followed by rotation b:
\* rotate_vector(mul(a, b), v) = rotate_vector(b, rotate_vector(a, v)).
C8_QuatMulFirstOperandFirst ==
    Returned("mul_quat") =>
        \A v \in Vec3s :
            rotate_vector(out, v) = rotate_vector(arg.b, rotate_vector(arg.a, v))

ZeroAngle == Angle(F(1), F(0))

\* C9 as stated: yaw alone is a rotation about Z, pitch alone about X, roll
\* alone about Y.
C9_EulerAxesAsNamed ==
    Returned("quat_from_euler") =>
        /\ (arg.pitch_x = ZeroAngle /\ arg.roll_y = ZeroAngle) =>
               out = quat_from_axis_angle(float3(F(0), F(0), F(1)), arg.yaw_z)
        /\ (arg.yaw_z = ZeroAngle /\ arg.roll_y = ZeroAngle) =>
               out = quat_from_axis_angle(float3(F(1), F(0), F(0)), arg.pitch_x)
        /\ (arg.yaw_z = ZeroAngle /\ arg.pitch_x = ZeroAngle) =>
               out = quat_from_axis_angle(float3(F(0), F(1), F(0)), arg.roll_y)

\* C10 as stated: for m whose upper-left 3x3 is a rotation or a rotation times
\* a uniform scale, a normal n transformed by normal_matrix(m) stays
\* perpendicular to a tangent t transformed by m.
C10_NormalsStayPerpendicular ==
    (Returned("normal_matrix") /\ arg.m \in AffineInputs) =>
        \A n \in Vec3s, t \in Vec3s :
            dot3(n, t) = F(0) =>
                dot3(mul3x3v(out, n), mul3x3v(upper3x3(arg.m), t)) = F(0)

\* component k of a vector, k = 0 for x
At(v, k) == IF k = 0 THEN v.x ELSE IF k = 1 THEN v.y ELSE IF k = 2 THEN v.z ELSE v.w

\* C11: the identity float4x4, the identity float3x3 and the identity
\* quaternion leave every vector as it is, and the default-constructed
\* matrices, which identity() returns, have 1 on the diagonal and 0 elsewhere.
C11_IdentityLaws ==
    /\ (Returned("mul4x4v") /\ arg.m = identity4x4) => out = arg.v
    /\ (Returned("mul3x3v") /\ arg.m = identity3x3) => out = arg.v
    /\ (Returned("rotate_vector") /\ arg.q = quat_identity) => out = arg.v
    /\ \A c \in 0..3, r \in 0..3 :
           At(identity4x4[c], r) = (IF c = r THEN F(1) ELSE F(0))
    /\ \A c \in 0..2, r \in 0..2 :
           At(identity3x3[c], r) = (IF c = r THEN F(1) ELSE F(0))

\* the identity float4x4 has been applied to the point (1, -1, 0, 1)
C11_Witness ==
    /\ Returned("mul4x4v")
    /\ arg.m = identity4x4
    /\ arg.v = float4(F(1), F(-1), F(0), F(1))
    /\ out = float4(F(1), F(-1), F(0), F(1))

C13_QuatInverse ==
    Returned("inverse_quat") =>
        LET len_sq == dot4(arg.q, arg.q)
            conj == conjugate(arg.q)
        IN  IF fle(len_sq, epsilon) THEN out = quat_identity
            ELSE /\ out = quat(fdiv(conj.x, len_sq), fdiv(conj.y, len_sq),
                               fdiv(conj.z, len_sq), fdiv(conj.w, len_sq))
                 /\ mul_quat(arg.q, out) = quat(F(0), F(0), F(0), F(1))

\* inverse has returned from a quaternion of length 2e-3, dot(q, q) = 4e-6
C13_Witness ==
    /\ Returned("inverse_quat")
    /\ arg.q = quat(F(0), F(0), Q(6, 5000), Q(8, 5000))
    /\ dot4(arg.q, arg.q) = Q(4, 1000000)
    /\ out = quat(F(0), F(0), F(-300), F(400))

\* the columns of m are of unit length and mutually perpendicular
Orthonormal3(m) ==
    \A c \in 0..2, r \in 0..2 : dot3(m[c], m[r]) = (IF c = r THEN F(1) ELSE F(0))

\* C14: float3x3 inverse(m) is transpose(m) for every m; for an orthonormal
\* m it is the inverse on both sides; for the scale by 2 it is not the
\* inverse.
C14_Inverse3x3IsTranspose ==
    Returned("inverse3x3") =>
        /\ \A c \in 0..2, r \in 0..2 : At(out[c], r) = At(arg.m[r], c)
        /\ Orthonormal3(arg.m) =>
               /\ mul3x3(out, arg.m) = identity3x3
               /\ mul3x3(arg.m, out) = identity3x3
        /\ arg.m = upper3x3(scale(float3(F(2), F(2), F(2)))) =>
               mul3x3(out, arg.m) # identity3x3

\* inverse has returned the transpose of a rotation about Z that is not
\* symmetric
C14_Witness ==
    /\ Returned("inverse3x3")
    /\ arg.m = rotate3_z(Angle(Q(4, 5), Q(3, 5)))
    /\ out # arg.m
    /\ mul3x3(out, arg.m) = identity3x3

\* slerp's result is the one of the path the claim describes
SlerpPath ==
    LET d0 == dot4(arg.a, arg.b)
        b_adj == IF flt(d0, F(0)) THEN neg4(arg.b) ELSE arg.b
        d == IF flt(d0, F(0)) THEN fneg(d0) ELSE d0
        wa == fdiv(sin_of_acos(fsub(F(1), arg.t), d), sin_of_acos(F(1), d))
        wb == fdiv(sin_of_acos(arg.t, d), sin_of_acos(F(1), d))
    IN  IF fgt(d, Q(9995, 10000)) THEN out = nlerp(arg.a, b_adj, arg.t)
        ELSE out = add4(scale4(wa, arg.a), scale4(wb, b_adj))

IsUnit(q) == dot4(q, q) = F(1)

\* C15 as stated: slerp takes the described path and, for unit a,
\* slerp(a, b, 0) = a and slerp(a, b, 1) = b when dot(a, b) >= 0, -b when
\* dot(a, b) < 0.
C15_SlerpEndPointsForUnitA ==
    Returned("slerp") =>
        /\ SlerpPath
        /\ (IsUnit(arg.a) /\ arg.t = F(0)) => out = arg.a
        /\ (IsUnit(arg.a) /\ arg.t = F(1)) =>
               out = (IF flt(dot4(arg.a, arg.b), F(0)) THEN neg4(arg.b) ELSE arg.b)

\* C15 amended: slerp takes the described path; for unit a, slerp(a, b, 0) = a;
\* for unit a and unit b, slerp(a, b, 1) = b when dot(a, b) >= 0, -b when
\* dot(a, b) < 0.
C15_SlerpEndPointsForUnitAAndB ==
    Returned("slerp") =>
        /\ SlerpPath
        /\ (IsUnit(arg.a) /\ arg.t = F(0)) => out = arg.a
        /\ (IsUnit(arg.a) /\ IsUnit(arg.b) /\ arg.t = F(1)) =>
               out = (IF flt(dot4(arg.a, arg.b), F(0)) THEN neg4(arg.b) ELSE arg.b)

\* slerp has returned -b at t = 1 for unit a and b with dot(a, b) = -7/25,
\* by the sine-weighted path
C15_Witness ==
    /\ Returned("slerp")
    /\ arg.a = quat_identity
    /\ arg.b = quat(F(0), F(0), Q(-24, 25), Q(-7, 25))
    /\ arg.t = F(1)
    /\ out = quat(F(0), F(0), Q(24, 25), Q(7, 25))

\* C16 as stated: the result of nlerp(a, b, t) has unit length for all a, b
\* and t.
C16_NlerpIsNormalized ==
    Returned("nlerp") => length4(out) = F(1)

\* C17 as stated: for every orthonormal rotation matrix m and every vector v,
\* rotate_vector(quat_from_float3x3(m), v) = mul(m, v), and the quaternion
\* has unit length.
C17_QuatOfMatrixRotatesAsMatrix ==
    (Returned("quat_from_float3x3") /\ Orthonormal3(arg.m)) =>
        /\ \A v \in Vec3s : rotate_vector(out, v) = mul3x3v(arg.m, v)
        /\ IsUnit(out)

PlusX == float3(F(1), F(0), F(0))

PlusY == float3(F(0), F(1), F(0))

PlusZ == float3(F(0), F(0), F(1))

\* C18 as stated: rotate_z(pi/2) maps +X to +Y, rotate_x(pi/2) +Y to +Z and
\* rotate_y(pi/2) +Z to +X, for float3x3 and float4x4; for a unit axis,
\* float3x3::rotate_axis_angle is the upper-left 3x3 of
\* float4x4::rotate_axis_angle, and is rotate_x/y/z on the coordinate axes.
C18_OneRightHandedConvention ==
    /\ mul3x3v(rotate3_z(QuarterTurn), PlusX) = PlusY
    /\ mul3x3v(rotate3_x(QuarterTurn), PlusY) = PlusZ
    /\ mul3x3v(rotate3_y(QuarterTurn), PlusZ) = PlusX
    /\ mul3x3v(upper3x3(rotate_z(QuarterTurn)), PlusX) = PlusY
    /\ mul3x3v(upper3x3(rotate_x(QuarterTurn)), PlusY) = PlusZ
    /\ mul3x3v(upper3x3(rotate_y(QuarterTurn)), PlusZ) = PlusX
    /\ Returned("rotate3_axis_angle") =>
           /\ out = upper3x3(rotate_axis_angle(arg.axis, arg.rad))
           /\ arg.axis = PlusX => out = rotate3_x(arg.rad)
           /\ arg.axis = PlusY => out = rotate3_y(arg.rad)
           /\ arg.axis = PlusZ => out = rotate3_z(arg.rad)

\* the depth of a clip-space point: z after the division by w
Depth(p) == fdiv(p.z, p.w)

\* C19: for 0 < z_near < z_far, perspective_lh sends a view-space point at
\* z = z_near to depth 0 and at z = z_far to depth 1, with output w = z;
\* perspective_rh sends z = -z_near to depth 0 and z = -z_far to depth 1,
\* with output w = -z.
C19_PerspectiveDepthZeroToOne ==
    /\ Returned("perspective_lh") =>
           \A x \in Coords, y \in Coords :
               LET near == mul4x4v(out, float4(x, y, arg.z_near, F(1)))
                   far == mul4x4v(out, float4(x, y, arg.z_far, F(1)))
               IN  /\ near.w = arg.z_near /\ Depth(near) = F(0)
                   /\ far.w = arg.z_far /\ Depth(far) = F(1)
    /\ Returned("perspective_rh") =>
           \A x \in Coords, y \in Coords :
               LET near == mul4x4v(out, float4(x, y, fneg(arg.z_near), F(1)))
                   far == mul4x4v(out, float4(x, y, fneg(arg.z_far), F(1)))
               IN  /\ near.w = arg.z_near /\ Depth(near) = F(0)
                   /\ far.w = arg.z_far /\ Depth(far) = F(1)

\* perspective_rh has returned for z_near = 1/10, z_far = 100, and sends the
\* point (1, 1, -100) to w = 100 and depth 1
C19_Witness ==
    /\ Returned("perspective_rh")
    /\ arg.z_near = Q(1, 10)
    /\ arg.z_far = F(100)
    /\ arg.aspect = Q(16, 9)
    /\ arg.fov_y_rad = Angle(Q(4, 5), Q(3, 5))
    /\ mul4x4v(out, float4(F(1), F(1), F(-100), F(1))).w = F(100)
    /\ mul4x4v(out, float4(F(1), F(1), F(-100), F(1))).z = F(100)

Point(v) == float4(v.x, v.y, v.z, F(1))

\* C20: look_at_lh sends (eye, 1) to the origin and (target, 1) to
\* (0, 0, |target - eye|, 1); look_at_rh sends (eye, 1) to the origin and
\* (target, 1) to (0, 0, -|target - eye|, 1); look_at_rh is look_at_lh with
\* the forward row z, and with it the row x = up x z, negated.
C20_LookAtEyeAndTarget ==
    /\ Returned("look_at_lh") =>
           /\ mul4x4v(out, Point(arg.eye)) = float4(F(0), F(0), F(0), F(1))
           /\ mul4x4v(out, Point(arg.target)) =
                  float4(F(0), F(0), length3(sub3(arg.target, arg.eye)), F(1))
    /\ Returned("look_at_rh") =>
           /\ mul4x4v(out, Point(arg.eye)) = float4(F(0), F(0), F(0), F(1))
           /\ mul4x4v(out, Point(arg.target)) =
                  float4(F(0), F(0), fneg(length3(sub3(arg.target, arg.eye))), F(1))
           /\ LET lh == look_at_lh(arg.eye, arg.target, arg.up)
              IN  \A c \in 0..3 :
                      out[c] = float4(fneg(lh[c].x), lh[c].y, fneg(lh[c].z), lh[c].w)

\* look_at_rh has returned for eye (1, 1, 1), target (4, 5, 1), up +Z: the
\* target lies at (0, 0, -5)
C20_Witness ==
    /\ Returned("look_at_rh")
    /\ arg.eye = float3(F(1), F(1), F(1))
    /\ arg.target = float3(F(4), F(5), F(1))
    /\ arg.up = float3(F(0), F(0), F(1))
    /\ mul4x4v(out, Point(arg.target)) = float4(F(0), F(0), F(-5), F(1))

\* C21: faceforward(n, i, nref) returns n if dot(nref, i) >= 0 and -n
\* otherwise.
C21_FaceforwardKeepsNForNonNegativeDot ==
    Returned("faceforward") =>
        out = IF fle(F(0), dot3(arg.nref, arg.i)) THEN arg.n ELSE neg3(arg.n)

\* C22: cross(a, b) is the determinant expansion (ay*bz - az*by,
\* az*bx - ax*bz, ax*by - ay*bx); it follows the right-hand rule,
\* cross((1,0,0), (0,1,0)) = (0,0,1); cross(a, b) = -cross(b, a); and
\* dot(cross(a, b), a) = 0.
C22_CrossIsRightHandedDeterminant ==
    Returned("cross") =>
        /\ out.x = fsub(fmul(arg.a.y, arg.b.z), fmul(arg.a.z, arg.b.y))
        /\ out.y = fsub(fmul(arg.a.z, arg.b.x), fmul(arg.a.x, arg.b.z))
        /\ out.z = fsub(fmul(arg.a.x, arg.b.y), fmul(arg.a.y, arg.b.x))
        /\ (arg.a = PlusX /\ arg.b = PlusY) => out = PlusZ
        /\ out = neg3(cross(arg.b, arg.a))
        /\ dot3(out, arg.a) = F(0)
        /\ dot3(out, arg.b) = F(0)

\* cross has returned (0, 0, 1) for (1, 0, 0) and (0, 1, 0)
C22_Witness ==
    /\ Returned("cross")
    /\ arg.a = float3(F(1), F(0), F(0))
    /\ arg.b = float3(F(0), F(1), F(0))
    /\ out = float3(F(0), F(0), F(1))
\* the product of two float[4][4] row-major arrays
RowsTimes(p, q) ==
    [r \in 0..3 |-> [k \in 0..3 |->
        fadd(fadd(fmul(p[r][0], q[0][k]), fmul(p[r][1], q[1][k])),
             fadd(fmul(p[r][2], q[2][k]), fmul(p[r][3], q[3][k])))]]

InInverse == op = "inverse" /\ pc \in {"gj", "done"}

\* C23: the Gauss-Jordan elimination of inverse(m) keeps a and inv in
\* lock-step: at every step boundary (after the set-up, after each pivot
\* iteration, at either return) inv * M0 = a, M0 the row-major copy of m.
C23_InvTimesInputIsWorkingMatrix ==
    InInverse => RowsTimes(inv, row_major(arg.m)) = a

\* the elimination of the unstructured test matrix has exchanged rows and
\* gone through three columns
C23_Witness ==
    /\ InInverse
    /\ arg.m = TestM
    /\ i = 3
    /\ inv # augmented_identity
    /\ find_pivot(row_major(TestM), 0).pivot = 3
\* column k of the working matrix w is column k of the identity
IdentityColumn(w, k) == \A r \in 0..3 : w[r][k] = IF r = k THEN F(1) ELSE F(0)

\* C24: the pivot loop of inverse ends after at most 4 iterations; after the
\* iteration of column i that is not the singular exit, columns 0..i of the
\* working matrix a are identity columns; after column 3 a is the identity
\* and inv, transposed back to column-major, is what inverse returns.
C24_EliminationEndsWithIdentity ==
    /\ [](InInverse =>
            /\ i \in 0..4
            /\ \A k \in 0..(i - 1) : IdentityColumn(a, k))
    /\ []((Returned("inverse") /\ i = 4) =>
            /\ a = augmented_identity
            /\ out = from_rows(inv))
    /\ [](pc = "gj" => <>(Returned("inverse")))

\* inverse has gone through the four columns of the unstructured test
\* matrix and returned inv transposed back
C24_Witness ==
    /\ Returned("inverse")
    /\ arg.m = TestM
    /\ i = 4
    /\ a = augmented_identity
    /\ out = from_rows(inv)
    /\ out # identity4x4
\* |w[j][k]|
AbsAt(w, j, k) == fabs(w[j][k])

\* a step of the pivot loop that searches column i: an iteration or the
\* singular exit
SearchStep == InInverse /\ pc = "gj" /\ i < 4 /\ <<pc', i'>> # <<pc, i>>

\* C25: the pivot loop of inverse pivots partially: the pivot row chosen for
\* column i is a row j with i <= j <= 3 and |a[j][i]| maximal among the rows
\* i..3, the lowest such row on ties; rows above i are never chosen; rows i
\* and pivot are exchanged only when pivot # i: the chosen row, normalized,
\* becomes row i, the row that was at i moves to the pivot's place, and
\* every other row stays where it was.
C25_PartialPivoting ==
    [][SearchStep =>
        /\ pivot' \in i..3
        /\ \A j \in i..3 : fle(AbsAt(a, j, i), AbsAt(a, pivot', i))
        /\ \A j \in i..(pivot' - 1) : flt(AbsAt(a, j, i), AbsAt(a, pivot', i))
        /\ i' = i + 1 =>
            /\ a'[i] = [k \in 0..3 |-> fdiv(a[pivot'][k], a[pivot'][i])]
            /\ \A j \in 0..3 \ {i} :
                   LET from == IF j = pivot' THEN i ELSE j
                   IN  a'[j] =
                           [k \in 0..3 |->
                               fsub(a[from][k], fmul(a'[i][k], a[from][i]))]]_vars

\* the search of column 0 has met the same largest |a[j][0]| in two rows,
\* has taken the lower one, which is not row 0, and has exchanged the rows
C25_Witness ==
    /\ InInverse
    /\ i = 1
    /\ pivot # 0
    /\ \E j \in (pivot + 1)..3 :
           AbsAt(row_major(arg.m), j, 0) = AbsAt(row_major(arg.m), pivot, 0)
    /\ a[0] = [k \in 0..3 |->
                  fdiv(row_major(arg.m)[pivot][k], row_major(arg.m)[pivot][0])]
\* every candidate pivot of column i, the rows i..3, is below epsilon
AllCandidatesBelowEpsilon ==
    i < 4 /\ \A j \in i..3 : flt(AbsAt(a, j, i), epsilon)

\* an iteration that normalizes row i has a pivot of magnitude >= epsilon
DividesByPivotAtLeastEpsilon ==
    (InInverse /\ pc = "gj" /\ i' = i + 1) =>
        /\ fle(epsilon, AbsAt(a, pivot', i))
        /\ a'[i][i] = F(1)

\* C26 as stated: inverse never divides by a pivot of magnitude below
\* epsilon, and it returns the identity matrix exactly when at some pivot
\* step every candidate |a[j][i]|, j >= i, is below epsilon; diag(1e-7)
\* returns the identity.
C26_IdentityExactlyWhenPivotBelowEpsilon ==
    /\ [][DividesByPivotAtLeastEpsilon]_vars
    /\ [](Returned("inverse") => (out = identity4x4 <=> AllCandidatesBelowEpsilon))
    /\ []((Returned("inverse") /\ arg.m = Diagonal(Q(1, 10000000))) =>
            out = identity4x4)

\* C26 amended: inverse never divides by a pivot of magnitude below epsilon;
\* it stops at a pivot step and returns the identity matrix as its fallback
\* exactly when every candidate |a[j][i]|, j >= i, of that step is below
\* epsilon; otherwise it goes through the four columns, and then its result
\* is the identity matrix only for the identity matrix; diag(1e-7) returns
\* the identity.
C26_FallbackExactlyWhenPivotBelowEpsilon ==
    /\ [][DividesByPivotAtLeastEpsilon]_vars
    /\ [](Returned("inverse") =>
            /\ i < 4 <=> AllCandidatesBelowEpsilon
            /\ i < 4 => out = identity4x4
            /\ (i = 4 /\ out = identity4x4) => arg.m = identity4x4)
    /\ []((Returned("inverse") /\ arg.m = Diagonal(Q(1, 10000000))) =>
            (out = identity4x4 /\ i = 0))

\* inverse has returned the identity for diag(1e-7) from the search of
\* column 0, whose largest candidate is 1e-7
C26_Witness ==
    /\ Returned("inverse")
    /\ arg.m = Diagonal(Q(1, 10000000))
    /\ AllCandidatesBelowEpsilon
    /\ find_pivot(a, 0).max_val = Q(1, 10000000)
    /\ out = identity4x4
\* C27: quat_from_float3x3 tests its branches in the order trace > 0; m00
\* strictly greater than both m11 and m22; m11 > m22; otherwise m22.  For
\* every orthonormal rotation matrix the branch taken has a strictly
\* positive value under the square root and a scale factor s >= 2 (s is four
\* times the component the branch computes as 0.25 * s), so every component
\* of the result is finite.
C27_BranchTakenHasScaleAtLeastTwo ==
    (Returned("quat_from_float3x3") /\ Orthonormal3(arg.m)) =>
        LET m00 == arg.m[0].x
            m11 == arg.m[1].y
            m22 == arg.m[2].z
            branch ==
                IF fgt(fadd(fadd(m00, m11), m22), F(0)) THEN 1
                ELSE IF fgt(m00, m11) /\ fgt(m00, m22) THEN 2
                ELSE IF fgt(m11, m22) THEN 3
                ELSE 4
            radicand ==
                IF branch = 1 THEN fadd(fadd(fadd(m00, m11), m22), F(1))
                ELSE IF branch = 2 THEN fsub(fsub(fadd(F(1), m00), m11), m22)
                ELSE IF branch = 3 THEN fsub(fsub(fadd(F(1), m11), m00), m22)
                ELSE fsub(fsub(fadd(F(1), m22), m00), m11)
            quarter_s ==
                IF branch = 1 THEN out.w
                ELSE IF branch = 2 THEN out.x
                ELSE IF branch = 3 THEN out.y
                ELSE out.z
            s == fmul(F(4), quarter_s)
        IN  /\ fgt(radicand, F(0))
            /\ fmul(s, s) = fmul(F(4), radicand)
            /\ fle(F(2), s)
            /\ \A k \in 0..3 : IsFinite(At(out, k))

\* quat_from_float3x3 has returned for the rotation by 120 degrees about
\* (1, 1, 1) reversed, whose trace is 0 and whose diagonal entries are all
\* equal: the m22 branch, with s = 2 exactly
C27_Witness ==
    /\ Returned("quat_from_float3x3")
    /\ Orthonormal3(arg.m)
    /\ arg.m = to_float3x3(quat(Q(1, 2), Q(1, 2), Q(1, 2), Q(-1, 2)))
    /\ arg.m[0].x = F(0) /\ arg.m[1].y = F(0) /\ arg.m[2].z = F(0)
    /\ quat_branch(arg.m) = 4
    /\ out.z = Q(1, 2)
\* C28: for every rigid transform m = translate(t) * R, R an orthonormal
\* rotation matrix, affine_inverse(m) = inverse(m), the Gauss-Jordan general
\* inverse, and m * result is the identity for both.
C28_FastPathAgreesWithGeneralInverse ==
    /\ (Returned("inverse") /\ arg.m \in RigidModels) =>
           /\ out = affine_inverse(arg.m)
           /\ mul4x4(arg.m, out) = identity4x4
    /\ (Returned("affine_inverse") /\ arg.m \in RigidModels) =>
           /\ out = inverse4x4(arg.m)
           /\ mul4x4(arg.m, out) = identity4x4

\* inverse has eliminated the four columns of translate(2,3,4) * rotate_z
\* and returned what affine_inverse computes
C28_Witness ==
    /\ Returned("inverse")
    /\ arg.m = mul4x4(translate(float3(F(2), F(3), F(4))),
                      rotate_z(Angle(Q(4, 5), Q(3, 5))))
    /\ i = 4
    /\ out = affine_inverse(arg.m)
    /\ out[3] # float4(F(-2), F(-3), F(-4), F(1))
C30_OrthoDepthZeroToOne ==
    /\ Returned("ortho_lh") =>
           \A x \in Coords, y \in Coords :
               /\ Depth(mul4x4v(out, float4(x, y, arg.z_near, F(1)))) = F(0)
               /\ Depth(mul4x4v(out, float4(x, y, arg.z_far, F(1)))) = F(1)
    /\ Returned("ortho_rh") =>
           \A x \in Coords, y \in Coords :
               /\ Depth(mul4x4v(out, float4(x, y, fneg(arg.z_near), F(1)))) = F(0)
               /\ Depth(mul4x4v(out, float4(x, y, fneg(arg.z_far), F(1)))) = F(1)
====
